---- MODULE Spec2Model ----
(***************************************************************************)
(* Model of endlessh-exporter-geoip.py: the reconciliation pass            *)
(* (parse_endlessh_logs) that rebuilds the connection working set from the *)
(* journal, merges released connections into the Hall of Fame, and counts  *)
(* new connections from the 5-minute window.                               *)
(*                                                                         *)
(* The journal (journalctl -u endlessh) is the environment: endlessh       *)
(* appends lines, the clock advances, and a pass reads the lines of the    *)
(* last 6 hours and of the last 5 minutes.  Time is counted in ticks.      *)
(*                                                                         *)
(* Spec is one run of the exporter: requests for /metrics arrive and are   *)
(* served one after the other.  SpecRestart adds the Hall of Fame files a  *)
(* run can find at startup and the restart of the process.                 *)
(***************************************************************************)
EXTENDS Integers, Sequences, FiniteSets, TLC

\* ---------------------------------------------------------------- bounds
MaxLines == 2        \* lines endlessh writes to the journal in a run
MaxNow == 2          \* last clock tick
MaxScrapes == 2      \* scrape requests served in a run
MaxRestarts == 1     \* times the exporter is stopped and started again

\* ------------------------------------------- program constants (scaled)
HallCapacity == 2    \* 100 in the source: size of the Hall of Fame
SeenLimit == 1       \* 1000 in the source: size that clears seen_log_entries
LongSpan == 2        \* '6 hours ago', in ticks
ShortSpan == 1       \* '5 minutes ago', in ticks

\* ------------------------------------------------------- input universe
IPs == {"A", "B"}            \* origins that connect during the run
\* their connections: two ports of one origin, one port shared by two origins
Conns == {<<"A", 1>>, <<"A", 2>>, <<"B", 1>>}
FDs == {4}                   \* descriptor ids endlessh hands out
Times == {1, 3}              \* time= values of CLOSE lines
Now0 == 1                    \* clock at startup

Unknown == [country |-> "Unknown", city |-> "Unknown", country_code |-> "XX"]

\* the answer of ip-api.com for an origin, when it answers
GeoOf(ip) == [country |-> "Land" \o ip, city |-> "City" \o ip, country_code |-> ip]

EmptyMap == [k \in {} |-> 0]

\* ACCEPT ... host=::ffff:<ip> port=<port> fd=<fd>, with or without a
\* timestamp the timestamp_pattern matches
AcceptLine(ip, port, fd, has_ts, at) ==
    [kind |-> "ACCEPT", ip |-> ip, port |-> port, fd |-> fd,
     has_ts |-> has_ts, time |-> 0, at |-> at]

\* CLOSE ... host=::ffff:<ip> port=<port> fd=<fd> time=<time>
CloseLine(ip, port, fd, time, at) ==
    [kind |-> "CLOSE", ip |-> ip, port |-> port, fd |-> fd,
     has_ts |-> TRUE, time |-> time, at |-> at]

LinesAt(at) ==
    {AcceptLine(c[1], c[2], fd, h, at) : c \in Conns, fd \in FDs, h \in BOOLEAN}
    \cup {CloseLine(c[1], c[2], fd, t, at) : c \in Conns, fd \in FDs, t \in Times}

\* a record of the Hall of Fame file, as load_hall_of_fame returns it
Stored(ip, port, duration) ==
    [id |-> <<ip, port>>,
     conn |-> [ip |-> ip, port |-> port, fd |-> 4, country |-> "Unknown",
               city |-> "Unknown", country_code |-> "XX", started |-> 0,
               duration |-> duration, status |-> "released"]]

\* Hall of Fame files found at startup: none, and one written by hand or by
\* an older version, over capacity and with two records of one origin
StoredBoards ==
    { <<>>,
      <<Stored("A", 2, 3), Stored("H", 9, 2), Stored("H", 8, 1)>> }

VARIABLES
    journal,                    \* lines of journalctl -u endlessh
    now,                        \* datetime.now(timezone.utc), in ticks
    pc,                         \* position of the pass in parse_endlessh_logs
    pending,                    \* requests for /metrics waiting in the listen queue
    scrapes,                    \* requests for /metrics the server took up
    individual_connections,     \* conn_id -> record
    hall_of_fame,               \* ordered dict: sequence of [id, conn]
    hof_file,                   \* content of HALL_OF_FAME_FILE
    restarts,                   \* times the process was started again
    ip_locations,               \* ip -> geo
    total_connections_counter,
    seen_log_entries,
    connections_per_ip,         \* ip -> count
    max_trap_duration,
    avg_trap_duration,          \* <<sum, len>> of the division at line 254
    active_connections,
    output_6h,                  \* locals of the pass
    output_5min,
    trapped_connections,
    sorted_hall,
    rendered,                   \* the response to the last request for /metrics
    best_seen,                  \* history: ip -> longest released duration merged
    short_opens,                \* history: ACCEPT lines seen in a 5-minute window
    seen_ids,                   \* history: (timestamp, fd) of the lines seen_log_entries holds
    prev,                       \* history: the pass before this one
    last_saved,                 \* history: the Hall of Fame of the last save that succeeded
    boot_file                   \* history: the file load_hall_of_fame found

vars == <<journal, now, pc, pending, scrapes, hof_file, restarts, individual_connections, hall_of_fame, ip_locations,
          total_connections_counter, seen_log_entries, connections_per_ip,
          max_trap_duration, avg_trap_duration, active_connections,
          output_6h, output_5min, trapped_connections, sorted_hall, rendered,
          best_seen, short_opens, seen_ids, prev, last_saved, boot_file>>

globals == <<individual_connections, hall_of_fame, ip_locations,
             total_connections_counter, seen_log_entries, connections_per_ip,
             max_trap_duration, avg_trap_duration, active_connections>>

locals == <<output_6h, output_5min, trapped_connections, sorted_hall, rendered>>

history == <<best_seen, short_opens, seen_ids, prev, last_saved, boot_file, restarts>>

\* ------------------------------------------------------ ordered dicts
Keys(od) == {od[i].id : i \in DOMAIN od}

Get(od, k) == od[CHOOSE i \in DOMAIN od : od[i].id = k].conn

\* od[k] = v: an existing key keeps its position, a new key goes last
Put(od, k, v) ==
    IF k \in Keys(od)
    THEN [i \in DOMAIN od |-> IF od[i].id = k THEN [id |-> k, conn |-> v] ELSE od[i]]
    ELSE Append(od, [id |-> k, conn |-> v])

\* m[k] = v on an unordered map
MapPut(m, k, v) == [x \in DOMAIN m \cup {k} |-> IF x = k THEN v ELSE m[x]]

\* ------------------------------------------------------ the log source
\* journalctl --since '<span> ago': the lines not older than the span
Since(span) == SelectSeq(journal, LAMBDA l : l.at > now - span)

\* f"{ip}:{port}"
ConnId(ip, port) == <<ip, port>>

\* lines 143-148: the ports of the CLOSE lines of the window
ClosedPorts(text) == {text[i].port : i \in {j \in DOMAIN text : text[j].kind = "CLOSE"}}

StatusAlwaysTrapped(port, closed_ports) == "trapped"

\* lines 178-182
StatusOf(port, closed_ports) == IF port \in closed_ports THEN "released" ELSE "trapped"

LookupCachesPlaceholder(locs, ip, ok) ==
    IF ip \in DOMAIN locs THEN locs
    ELSE MapPut(locs, ip, IF ok THEN GeoOf(ip) ELSE Unknown)

\* lines 75-106 as called at 173-174: a successful answer is cached, a
\* failed lookup leaves the cache alone
Lookup(locs, ip, ok) ==
    IF ip \in DOMAIN locs THEN locs
    ELSE IF ok THEN MapPut(locs, ip, GeoOf(ip)) ELSE locs

StartedNow(line, t) == t

\* lines 163-170: the timestamp of the line, or now when none parses
StartedTime(line, t) == IF line.has_ts THEN line.at ELSE t

\* lines 176-195
NewRecord(line, locs, closed_ports, t) ==
    LET geo == IF line.ip \in DOMAIN locs THEN locs[line.ip] ELSE Unknown
    IN [ip |-> line.ip, port |-> line.port, fd |-> line.fd,
        country |-> geo.country, city |-> geo.city, country_code |-> geo.country_code,
        started |-> StartedTime(line, t), duration |-> 0,
        status |-> StatusOf(line.port, closed_ports)]

\* lines 150-197: the ACCEPT lines, in order; answering holds the origins
\* whose geolocation lookup answers during this pass (all of them, or none
\* while ip-api.com is unreachable)
RECURSIVE AcceptScan(_, _, _, _, _, _, _, _)
AcceptScan(text, i, conns, per_ip, locs, answering, closed_ports, t) ==
    IF i > Len(text) THEN [conns |-> conns, per_ip |-> per_ip, locs |-> locs]
    ELSE IF text[i].kind # "ACCEPT"
    THEN AcceptScan(text, i + 1, conns, per_ip, locs, answering, closed_ports, t)
    ELSE LET line == text[i]
             locs2 == Lookup(locs, line.ip, line.ip \in answering)
             rec == NewRecord(line, locs2, closed_ports, t)
             count == IF line.ip \in DOMAIN per_ip THEN per_ip[line.ip] ELSE 0
         IN AcceptScan(text, i + 1,
                       MapPut(conns, ConnId(line.ip, line.port), rec),
                       MapPut(per_ip, line.ip, count + 1),
                       locs2, answering, closed_ports, t)

\* lines 199-216: the CLOSE lines, in order
RECURSIVE CloseScan(_, _, _, _)
CloseScan(text, i, conns, hall) ==
    IF i > Len(text) THEN [conns |-> conns, hall |-> hall]
    ELSE IF text[i].kind # "CLOSE" THEN CloseScan(text, i + 1, conns, hall)
    ELSE LET line == text[i]
             conn_id == ConnId(line.ip, line.port)
         IN IF conn_id \in DOMAIN conns
            THEN LET rec == [conns[conn_id] EXCEPT !.duration = line.time]
                 IN CloseScan(text, i + 1, MapPut(conns, conn_id, rec),
                              Put(hall, conn_id, rec))
            ELSE CloseScan(text, i + 1, conns, hall)

\* lines 218-223: trapped records get the live duration
LiveDuration(conn, t) == t - conn.started

WithLiveForAll(conns, t) ==
    [k \in DOMAIN conns |-> [conns[k] EXCEPT !.duration = LiveDuration(conns[k], t)]]

WithLive(conns, t) ==
    [k \in DOMAIN conns |->
        IF conns[k].status = "trapped"
        THEN [conns[k] EXCEPT !.duration = LiveDuration(conns[k], t)]
        ELSE conns[k]]

Trapped(conns) ==
    LET ks == {k \in DOMAIN conns : conns[k].status = "trapped"}
    IN [k \in ks |-> conns[k]]

\* lines 60-66: datetime.isoformat() of the start time
IsoFormat(started) == <<"iso", started>>

\* lines 60-66: a record without 'started' is written as it is
Serialized(hall) ==
    [i \in DOMAIN hall |->
        [id |-> hall[i].id,
         conn |-> IF "started" \in DOMAIN hall[i].conn
                  THEN [hall[i].conn EXCEPT !.started = IsoFormat(hall[i].conn.started)]
                  ELSE hall[i].conn]]

\* lines 68-70: the file json.dump has written to its end
FileOf(hall) == [kind |-> "json", data |-> Serialized(hall)]

\* no file at HALL_OF_FAME_FILE
Missing == [kind |-> "missing"]

\* a file that is not JSON text: empty, or the beginning of a JSON text
Garbage == [kind |-> "garbage"]

\* lines 56-73: the file is written; or makedirs or open raise and the file
\* is as it was; or open(..., 'w') has emptied the file and json.dump raises
\* before the text is complete (disk full, I/O error)
SaveOutcomes(hall, file) == {FileOf(hall), file, Garbage}

\* datetime.fromisoformat: the start time, if the text is one isoformat writes
IsIsoFormat(text) == text[1] = "iso"

FromIsoFormat(text) == text[2]

\* lines 41-45: every 'started' that is a string is parsed
Parsed(data) ==
    [i \in DOMAIN data |->
        [id |-> data[i].id,
         conn |-> IF "started" \in DOMAIN data[i].conn
                  THEN [data[i].conn EXCEPT !.started = FromIsoFormat(data[i].conn.started)]
                  ELSE data[i].conn]]

\* lines 32-52: no file, or any exception (json.load on text that is not
\* JSON, fromisoformat on text that is no timestamp), leave an empty Hall of
\* Fame; a record is taken as it is otherwise
Load(file) ==
    IF file.kind # "json" THEN <<>>
    ELSE IF \E i \in DOMAIN file.data :
                /\ "started" \in DOMAIN file.data[i].conn
                /\ ~IsIsoFormat(file.data[i].conn.started)
         THEN <<>>
         ELSE Parsed(file.data)

\* lines 225-234: the first record of greatest duration of each ip, the ips
\* in the order the Hall of Fame first shows them
RECURSIVE BestPerIp(_, _, _)
BestPerIp(hall, i, ip_to_best_conn) ==
    IF i > Len(hall) THEN ip_to_best_conn
    ELSE LET ip == hall[i].conn.ip
         IN IF ip \notin Keys(ip_to_best_conn)
               \/ hall[i].conn.duration > Get(ip_to_best_conn, ip).conn.duration
            THEN BestPerIp(hall, i + 1, Put(ip_to_best_conn, ip, hall[i]))
            ELSE BestPerIp(hall, i + 1, ip_to_best_conn)

DeduplicateNothing(hall) == hall

Deduplicate(hall) ==
    LET best == BestPerIp(hall, 1, <<>>)
    IN [i \in DOMAIN best |-> best[i].conn]

\* sorted(..., key=duration, reverse=True): stable, records of equal duration
\* keep their order
RECURSIVE InsertByDuration(_, _)
InsertByDuration(s, e) ==
    IF s = <<>> THEN <<e>>
    ELSE IF Head(s).conn.duration >= e.conn.duration
         THEN <<Head(s)>> \o InsertByDuration(Tail(s), e)
         ELSE <<e>> \o s

RECURSIVE SortedByDuration(_)
SortedByDuration(hall) ==
    IF hall = <<>> THEN <<>>
    ELSE InsertByDuration(SortedByDuration(SubSeq(hall, 1, Len(hall) - 1)), hall[Len(hall)])

\* lines 246-248: trapped records, overwritten by the Hall of Fame records
DisplayConnections(trapped, hall) ==
    [k \in DOMAIN trapped \cup Keys(hall) |->
        IF k \in Keys(hall) THEN Get(hall, k) ELSE trapped[k]]

RECURSIVE SumDurations(_, _)
SumDurations(conns, ks) ==
    IF ks = {} THEN 0
    ELSE LET k == CHOOSE x \in ks : TRUE
         IN conns[k].duration + SumDurations(conns, ks \ {k})

MaxDuration(conns) ==
    IF DOMAIN conns = {} THEN 0
    ELSE LET k == CHOOSE x \in DOMAIN conns :
                    \A y \in DOMAIN conns : conns[x].duration >= conns[y].duration
         IN conns[k].duration

AvgDuration(conns) ==
    IF DOMAIN conns = {} THEN <<0, 1>>
    ELSE <<SumDurations(conns, DOMAIN conns), Cardinality(DOMAIN conns)>>

ActiveCount(conns) == Cardinality({k \in DOMAIN conns : conns[k].status = "trapped"})

\* lines 276-279: f"{timestamp}_{fd}", where fd is match.group(2)
LogId(line) == <<line.at, line.port>>

\* lines 272-284
RECURSIVE CountNew(_, _, _, _)
RECURSIVE CountNewPerPass(_, _, _, _)
CountNewPerPass(text, i, seen, counter) ==
    IF i > Len(text) THEN [seen |-> seen, counter |-> 0]
    ELSE LET r == CountNewPerPass(text, i + 1, seen, counter)
         IN IF text[i].kind = "ACCEPT" /\ text[i].has_ts /\ LogId(text[i]) \notin seen
            THEN [seen |-> r.seen \cup {LogId(text[i])}, counter |-> r.counter + 1]
            ELSE r

CountNew(text, i, seen, counter) ==
    IF i > Len(text) THEN [seen |-> seen, counter |-> counter]
    ELSE IF text[i].kind = "ACCEPT" /\ text[i].has_ts /\ LogId(text[i]) \notin seen
         THEN CountNew(text, i + 1, seen \cup {LogId(text[i])}, counter + 1)
         ELSE CountNew(text, i + 1, seen, counter)

CleanupNever(seen) == seen

\* lines 288-290
Cleanup(seen) == IF Cardinality(seen) > SeenLimit THEN {} ELSE seen

\* ------------------------------------------------------------ rendering
\* f'{x:.2f}' of the quotient sum / len, in hundredths
Hundredths(sum, len) == (200 * sum + len) \div (2 * len)

\* lines 343-345: conn["started"] of every record of the working set
Renderable(conns) == \A k \in DOMAIN conns : "started" \in DOMAIN conns[k]

\* no request was answered yet
NoResponse == [status |-> "none"]

\* the handler raised and the connection is closed without a response
ErrorResponse == [status |-> "exception"]

\* lines 297-406 and 411-415: the aggregate lines of the 200 response
Render(counter, conns, active, max, avg, per_ip) ==
    IF Renderable(conns)
    THEN [status |-> "200",
          endlessh_total_connections_total |-> counter,
          endlessh_total_connections |-> Cardinality(DOMAIN conns),
          endlessh_active_connections |-> active,
          endlessh_max_trap_duration_seconds |-> Hundredths(max, 1),
          endlessh_avg_trap_duration_seconds |-> Hundredths(avg[1], avg[2]),
          endlessh_unique_ips |-> Cardinality(DOMAIN per_ip)]
    ELSE ErrorResponse

\* --------------------------------------------------- history variables
Max(a, b) == IF a >= b THEN a ELSE b

\* the longest duration of the records of an origin in a Hall of Fame, 0 if none
Longest(hall, ip) ==
    LET ds == {hall[i].conn.duration : i \in {j \in DOMAIN hall : hall[j].conn.ip = ip}}
    IN IF ds = {} THEN 0 ELSE CHOOSE d \in ds : \A e \in ds : d >= e

Origins(hall) == {hall[i].conn.ip : i \in DOMAIN hall}

BestSeen(best, hall) ==
    [ip \in DOMAIN best \cup Origins(hall) |->
        Max(IF ip \in DOMAIN best THEN best[ip] ELSE 0, Longest(hall, ip))]

Opens(text) == {text[i] : i \in {j \in DOMAIN text : text[j].kind = "ACCEPT"}}

\* the identifier the comment at line 275 names: timestamp + fd
FdIds(text) == {<<l.at, l.fd>> : l \in {o \in Opens(text) : o.has_ts}}

NoPass == [passed |-> FALSE]

\* the files of the Hall of Fames an earlier run has written
StoredFiles == {FileOf(b) : b \in StoredBoards}

\* a record without the field 'started'
WithoutStarted(conn) == [f \in DOMAIN conn \ {"started"} |-> conn[f]]

\* files no run has written: none, text that is not JSON, a record whose
\* 'started' is no timestamp, a record that lacks 'started'
BrokenFiles ==
    { Missing,
      Garbage,
      [kind |-> "json",
       data |-> <<[id |-> <<"H", 9>>,
                   conn |-> [Stored("H", 9, 2).conn EXCEPT !.started = <<"text", 0>>]]>>],
      [kind |-> "json",
       data |-> <<[id |-> <<"H", 9>>, conn |-> WithoutStarted(Stored("H", 9, 2).conn)]>>] }

\* ---------------------------------------------------------------- Init
\* the state when serve_forever starts, load_hall_of_fame done
StartWith(files) ==
    /\ journal = <<>>
    /\ now = Now0
    /\ pc = "idle"
    /\ pending = 0
    /\ scrapes = 0
    /\ individual_connections = EmptyMap
    /\ hof_file \in files
    /\ hall_of_fame = Load(hof_file)
    /\ restarts = 0
    /\ last_saved = hall_of_fame
    /\ boot_file = hof_file
    /\ ip_locations = EmptyMap
    /\ total_connections_counter = 0
    /\ seen_log_entries = {}
    /\ connections_per_ip = EmptyMap
    /\ max_trap_duration = 0
    /\ avg_trap_duration = <<0, 1>>
    /\ active_connections = 0
    /\ output_6h = <<>>
    /\ output_5min = <<>>
    /\ trapped_connections = EmptyMap
    /\ sorted_hall = <<>>
    /\ rendered = NoResponse
    /\ best_seen = BestSeen(EmptyMap, hall_of_fame)
    /\ short_opens = {}
    /\ seen_ids = {}
    /\ prev = NoPass

Init == StartWith(StoredFiles)

\* ---------------------------------------------------------- environment
\* endlessh logs a line
LogLine ==
    /\ pc = "idle"
    /\ Len(journal) < MaxLines
    /\ \E l \in LinesAt(now) : journal' = Append(journal, l)
    /\ UNCHANGED <<now, pc, pending, scrapes, hof_file, globals, locals, history>>

Tick ==
    /\ pc = "idle"
    /\ now < MaxNow
    /\ now' = now + 1
    /\ UNCHANGED <<journal, pc, pending, scrapes, hof_file, globals, locals, history>>

\* a client (Prometheus, a browser) sends GET /metrics; the connection
\* waits in the listen queue of the server socket
Arrive ==
    /\ pending + scrapes < MaxScrapes
    /\ pending' = pending + 1
    /\ UNCHANGED <<journal, now, pc, scrapes, hof_file, globals, locals, history>>

\* ------------------------------------------------------------- the pass
ServerThreaded == TRUE

\* lines 431-434: HTTPServer.serve_forever handles one request at a time, in
\* the thread that called it: the next request is taken up when do_GET of
\* the one before has returned
ServerFree == pc = "idle"

\* line 434: the server takes the next request from the listen queue
TakeRequest ==
    /\ ServerFree
    /\ pending > 0
    /\ pending' = pending - 1
    /\ scrapes' = scrapes + 1

FetchFailsAfterReset ==
    /\ TakeRequest
    /\ individual_connections' = EmptyMap
    /\ connections_per_ip' = EmptyMap
    /\ rendered' = Render(total_connections_counter, individual_connections',
                          active_connections, max_trap_duration, avg_trap_duration,
                          connections_per_ip')
    /\ UNCHANGED <<journal, now, pc, hof_file, hall_of_fame, ip_locations,
                   total_connections_counter, seen_log_entries, max_trap_duration,
                   avg_trap_duration, active_connections, output_6h, output_5min,
                   trapped_connections, sorted_hall, history>>

\* lines 117-120: the 6-hour journalctl call fails and the pass returns;
\* lines 297-415 render the response from the globals as they are
FetchFails ==
    /\ TakeRequest
    /\ rendered' = Render(total_connections_counter, individual_connections,
                          active_connections, max_trap_duration, avg_trap_duration,
                          connections_per_ip)
    /\ UNCHANGED <<journal, now, pc, hof_file, globals, output_6h, output_5min,
                   trapped_connections, sorted_hall, history>>

\* lines 114-223: both windows are read (the 5-minute one is empty when its
\* call fails), the working set is rebuilt and the released records are
\* copied to the Hall of Fame
Reconcile ==
    /\ TakeRequest
    /\ output_6h' = Since(LongSpan)
    /\ \/ output_5min' = Since(ShortSpan)
       \/ output_5min' = <<>>
    /\ \E answering \in {{}, IPs} :
        LET scan == AcceptScan(output_6h', 1, EmptyMap, EmptyMap, ip_locations, answering,
                               ClosedPorts(output_6h'), now)
            closed == CloseScan(output_6h', 1, scan.conns, hall_of_fame)
            conns == WithLive(closed.conns, now)
        IN /\ individual_connections' = conns
           /\ connections_per_ip' = scan.per_ip
           /\ ip_locations' = scan.locs
           /\ hall_of_fame' = closed.hall
           /\ trapped_connections' = Trapped(conns)
    /\ sorted_hall' = <<>>
    /\ best_seen' = BestSeen(best_seen, hall_of_fame')
    /\ short_opens' = short_opens \cup Opens(output_5min')
    /\ UNCHANGED <<prev, seen_ids, last_saved, boot_file, restarts>>
    /\ pc' = "merge"
    /\ UNCHANGED <<journal, now, hof_file, total_connections_counter, seen_log_entries,
                   max_trap_duration, avg_trap_duration, active_connections, rendered>>

Bottom(sorted) == SubSeq(sorted, Len(sorted) - HallCapacity + 1, Len(sorted))

\* line 241: sorted_hall[:100]
Top(sorted) == SubSeq(sorted, 1, HallCapacity)

TrimNever(hall) == hall

\* lines 236-241
Trim(hall) == IF Len(hall) > HallCapacity THEN Top(SortedByDuration(hall)) ELSE hall

\* lines 225-291: the Hall of Fame is deduplicated, trimmed and saved
\* (save_hall_of_fame writes the file, leaves it, or leaves it broken), the
\* display set and the aggregates are computed, the new lines are counted,
\* and lines 297-415 render the response
Merge ==
    /\ pc = "merge"
    /\ LET deduplicated == Deduplicate(hall_of_fame)
           trimmed == Trim(deduplicated)
           display_connections == DisplayConnections(trapped_connections, trimmed)
           c == CountNew(output_5min, 1, seen_log_entries, total_connections_counter)
       IN /\ hall_of_fame' = trimmed
          /\ sorted_hall' = IF Len(deduplicated) > HallCapacity
                            THEN SortedByDuration(deduplicated) ELSE sorted_hall
          /\ max_trap_duration' = MaxDuration(display_connections)
          /\ avg_trap_duration' = AvgDuration(display_connections)
          /\ active_connections' = ActiveCount(display_connections)
          /\ individual_connections' = display_connections
          /\ total_connections_counter' = c.counter
          /\ seen_log_entries' = Cleanup(c.seen)
          /\ seen_ids' = IF Cleanup(c.seen) = c.seen
                         THEN seen_ids \cup FdIds(output_5min) ELSE {}
    /\ hof_file' \in SaveOutcomes(hall_of_fame', hof_file)
    /\ last_saved' = IF hof_file' = FileOf(hall_of_fame') THEN hall_of_fame' ELSE last_saved
    /\ rendered' = Render(total_connections_counter', individual_connections',
                          active_connections', max_trap_duration', avg_trap_duration',
                          connections_per_ip)
    /\ prev' = [passed |-> TRUE, scrape |-> scrapes, text |-> output_6h,
                working |-> individual_connections, hall |-> hall_of_fame']
    /\ pc' = "idle"
    /\ output_6h' = <<>>
    /\ output_5min' = <<>>
    /\ trapped_connections' = EmptyMap
    /\ UNCHANGED <<journal, now, pending, scrapes, ip_locations, connections_per_ip,
                   best_seen, short_opens, boot_file, restarts>>

Next == LogLine \/ Tick \/ Arrive \/ FetchFails \/ Reconcile \/ Merge

Spec == Init /\ [][Next]_vars

\* ------------------------------------------------ the exporter restarts
\* lines 433-439 and 424-431: the process ends, by KeyboardInterrupt (the
\* Hall of Fame is saved as it is, or the save fails) or killed (the file
\* is as it was), at any point of a pass; it is started again, with the
\* globals of lines 22-30 and the Hall of Fame load_hall_of_fame reads
Restart ==
    /\ restarts < MaxRestarts
    /\ restarts' = restarts + 1
    /\ hof_file' \in SaveOutcomes(hall_of_fame, hof_file)
    /\ last_saved' = IF hof_file' = FileOf(hall_of_fame) THEN hall_of_fame ELSE last_saved
    /\ boot_file' = hof_file'
    /\ hall_of_fame' = Load(hof_file')
    /\ pc' = "idle"
    /\ pending' = 0
    /\ individual_connections' = EmptyMap
    /\ ip_locations' = EmptyMap
    /\ total_connections_counter' = 0
    /\ seen_log_entries' = {}
    /\ connections_per_ip' = EmptyMap
    /\ max_trap_duration' = 0
    /\ avg_trap_duration' = <<0, 1>>
    /\ active_connections' = 0
    /\ output_6h' = <<>>
    /\ output_5min' = <<>>
    /\ trapped_connections' = EmptyMap
    /\ sorted_hall' = <<>>
    /\ rendered' = NoResponse
    /\ best_seen' = BestSeen(EmptyMap, hall_of_fame')
    /\ short_opens' = {}
    /\ seen_ids' = {}
    /\ prev' = NoPass
    /\ UNCHANGED <<journal, now, scrapes>>

InitRestart == StartWith(StoredFiles \cup BrokenFiles)

\* endlessh logs a line of the connection the stored Hall of Fame knows
LogLineOfStored ==
    /\ pc = "idle"
    /\ Len(journal) < MaxLines
    /\ \E l \in {x \in LinesAt(now) : x.ip = "A" /\ x.port = 2 /\ x.has_ts} :
            journal' = Append(journal, l)
    /\ UNCHANGED <<now, pc, pending, scrapes, hof_file, globals, locals, history>>

NextRestart ==
    LogLineOfStored \/ Tick \/ Arrive \/ FetchFails \/ Reconcile \/ Merge \/ Restart

SpecRestart == InitRestart /\ [][NextRestart]_vars

\* ------------------------------------------------------------- claims
\* the position after line 223: the working set is rebuilt and the released
\* records are copied, the Hall of Fame is not yet deduplicated
Reconciled == pc = "merge"

\* a pass ran to its end
Completed == pc = "idle" /\ prev.passed

\* the step of lines 225-291, and of the response, of the running pass
Merges == pc = "merge" /\ pc' = "idle" /\ restarts' = restarts

AcceptsOf(text, ip, port) ==
    {i \in DOMAIN text : text[i].kind = "ACCEPT" /\ text[i].ip = ip /\ text[i].port = port}

ClosesOf(text, ip, port) ==
    {i \in DOMAIN text : text[i].kind = "CLOSE" /\ text[i].ip = ip /\ text[i].port = port}

\* the (origin, port) keys of the ACCEPT lines of a window
OpenKeys(text) == {ConnId(text[i].ip, text[i].port) : i \in {j \in DOMAIN text : text[j].kind = "ACCEPT"}}

\* C1: an ACCEPT whose (origin, port) has no CLOSE in the 6-hour window
\* yields a record with status 'trapped', whatever CLOSE lines of other
\* origins or keys the window holds
OpenWithoutCloseIsTrapped ==
    Reconciled =>
        \A k \in OpenKeys(output_6h) :
            ClosesOf(output_6h, k[1], k[2]) = {}
                => /\ k \in DOMAIN individual_connections
                   /\ individual_connections[k].status = "trapped"

\* C2: a record whose (origin, port) has an ACCEPT and a CLOSE in the window
\* is 'released', its duration is the time= value of a CLOSE of that key, and
\* the Hall of Fame holds a copy of it under its connection id
ClosedIsReleasedWithReportedDuration ==
    Reconciled =>
        \A k \in OpenKeys(output_6h) :
            ClosesOf(output_6h, k[1], k[2]) # {}
                => /\ k \in DOMAIN individual_connections
                   /\ individual_connections[k].status = "released"
                   /\ individual_connections[k].duration \in
                          {output_6h[i].time : i \in ClosesOf(output_6h, k[1], k[2])}
                   /\ k \in Keys(hall_of_fame)
                   /\ Get(hall_of_fame, k) = individual_connections[k]

\* a released record whose reported duration differs from now - started
ClosedIsReleasedWitness ==
    /\ Reconciled
    /\ \E k \in OpenKeys(output_6h) :
        /\ ClosesOf(output_6h, k[1], k[2]) # {}
        /\ individual_connections[k].status = "released"
        /\ individual_connections[k].duration # now - individual_connections[k].started
        /\ Get(hall_of_fame, k) = individual_connections[k]

Entries(hall) == {hall[i] : i \in DOMAIN hall}

\* C3: after a pass every Hall of Fame record carries the longest duration
\* of all released records of its origin merged so far, the loaded Hall of
\* Fame included
LongestSeenIsRecorded ==
    Completed =>
        \A i \in DOMAIN hall_of_fame :
            hall_of_fame[i].conn.duration = best_seen[hall_of_fame[i].conn.ip]

\* C4: after a completed pass the Hall of Fame holds at most one record of
\* an origin
OnePerOrigin ==
    Completed =>
        \A i, j \in DOMAIN hall_of_fame :
            i # j => hall_of_fame[i].conn.ip # hall_of_fame[j].conn.ip

\* the loaded file had two records of one origin and the longer one is left
OnePerOriginWitness ==
    /\ Completed
    /\ <<"H", 9>> \in Keys(hall_of_fame)
    /\ <<"H", 8>> \notin Keys(hall_of_fame)
    /\ best_seen["H"] = Get(hall_of_fame, <<"H", 9>>).duration

\* C5: after a completed pass the Hall of Fame holds at most HallCapacity
\* records, whatever was loaded at startup
AtMostCapacity == Completed => Len(hall_of_fame) <= HallCapacity

\* a file over capacity was loaded and a later pass merged one more origin
AtMostCapacityWitness ==
    /\ Completed
    /\ Len(hall_of_fame) = HallCapacity
    /\ Cardinality(DOMAIN best_seen) > HallCapacity
    /\ "H" \in DOMAIN best_seen

\* C6: a merge that holds more than HallCapacity records after the
\* deduplication leaves exactly HallCapacity of them, and none it drops is
\* longer than one it keeps
TrimKeepsLongest ==
    [][(Merges /\ Len(Deduplicate(hall_of_fame)) > HallCapacity)
        => /\ Len(hall_of_fame') = HallCapacity
           /\ Entries(hall_of_fame') \subseteq Entries(Deduplicate(hall_of_fame))
           /\ \A e \in Entries(hall_of_fame') :
                \A d \in Entries(Deduplicate(hall_of_fame)) \ Entries(hall_of_fame') :
                    e.conn.duration >= d.conn.duration]_vars

\* the last pass sorted more than HallCapacity records and dropped a
\* strictly shorter one
TrimKeepsLongestWitness ==
    /\ Completed
    /\ Len(sorted_hall) > HallCapacity
    /\ Entries(hall_of_fame) \subseteq Entries(sorted_hall)
    /\ \E d \in Entries(sorted_hall) \ Entries(hall_of_fame) :
        \E e \in Entries(hall_of_fame) : e.conn.duration > d.conn.duration

\* C7: an ACCEPT line is counted at most once, so the counter never exceeds
\* the number of distinct ACCEPT lines that were ever in a 5-minute window
CountedAtMostOnce == total_connections_counter <= Cardinality(short_opens)

\* C8: a pass raises the counter by the number of distinct (timestamp, fd)
\* identifiers of the 5-minute window's ACCEPT lines that the recency set
\* did not hold when the pass began
CountsNewFdIds ==
    [][Merges
        => total_connections_counter' - total_connections_counter
             = Cardinality(FdIds(output_5min) \ seen_ids)]_vars

\* C9: the total-connections counter never decreases
CounterMonotonic == [][total_connections_counter' >= total_connections_counter]_vars

\* the counter has counted, over a pass that cleared the recency set and
\* a later scrape
CounterMonotonicWitness ==
    /\ pc = "idle"
    /\ scrapes > 1
    /\ total_connections_counter > 1
    /\ seen_log_entries = {}

\* the ACCEPT line of a key that the record of the key is built from
LastAccept(text, k) ==
    text[CHOOSE i \in AcceptsOf(text, k[1], k[2]) :
            \A j \in AcceptsOf(text, k[1], k[2]) : j <= i]

\* this pass reads the text the pass before it read
Rescan == pc = "merge" /\ prev.passed /\ output_6h = prev.text

\* C10 as stated: a pass over the text of the pass before it yields the same
\* ids with the same status, start time and released durations, and leaves
\* the Hall of Fame with the same entries
RescanIsIdempotent ==
    [][(Rescan /\ Merges)
        => /\ DOMAIN individual_connections = DOMAIN prev.working
           /\ \A k \in DOMAIN individual_connections :
                LET a == individual_connections[k]
                    b == prev.working[k]
                IN /\ a.status = b.status
                   /\ a.started = b.started
                   /\ a.status = "released" => a.duration = b.duration
           /\ Entries(hall_of_fame') = Entries(prev.hall)]_vars

\* the start time of the record of k comes from the text
StartFromText(text, k) == k \in OpenKeys(text) => LastAccept(text, k).has_ts

\* C10 as amended: the same, but the start time is the same only where the
\* ACCEPT line carries a timestamp, and the location labels are left out
RescanIsIdempotentButStartAndLocation ==
    [][(Rescan /\ Merges)
        => /\ DOMAIN individual_connections = DOMAIN prev.working
           /\ \A k \in DOMAIN individual_connections :
                LET a == individual_connections[k]
                    b == prev.working[k]
                IN /\ a.status = b.status
                   /\ LastAccept(output_6h, k).has_ts => a.started = b.started
                   /\ a.status = "released" => a.duration = b.duration
           /\ Keys(hall_of_fame') = Keys(prev.hall)
           /\ Len(hall_of_fame') = Len(prev.hall)
           /\ \A k \in Keys(prev.hall) :
                LET a == Get(hall_of_fame', k)
                    b == Get(prev.hall, k)
                IN /\ a.ip = b.ip /\ a.port = b.port /\ a.fd = b.fd
                   /\ a.status = b.status /\ a.duration = b.duration
                   /\ StartFromText(output_6h, k) => a.started = b.started]_vars

\* a second pass over the same text, later than the first: a trapped record
\* has a new live duration, and the Hall of Fame holds records
RescanWitness ==
    /\ Rescan
    /\ hall_of_fame # <<>>
    /\ \E k \in DOMAIN individual_connections :
        /\ individual_connections[k].status = "trapped"
        /\ LastAccept(output_6h, k).has_ts
        /\ individual_connections[k].duration # prev.working[k].duration

\* the request taken up is answered without a pass: its 6-hour query failed
LongQueryFails == scrapes' = scrapes + 1 /\ pc' = "idle"

\* the 5-minute query of the pass failed: its text is empty although the
\* window holds lines
ShortQueryFails == pc = "idle" /\ pc' = "merge" /\ output_5min' # Since(ShortSpan)

\* C11 as stated: a pass whose 6-hour or 5-minute query fails leaves the
\* working set, the per-origin counts, the Hall of Fame, the counter, the
\* recency set and the aggregates as they were
FailedQueryKeepsState ==
    [][(LongQueryFails \/ ShortQueryFails) => UNCHANGED globals]_vars

\* C11 as amended: a failed 6-hour query leaves all of them and the file as
\* they were and the request is answered 200 with the aggregates computed
\* last; a pass with a failed (or empty) 5-minute query leaves the counter
\* and the recency set as they were
FailedLongQueryKeepsState ==
    [][/\ LongQueryFails
            => /\ UNCHANGED <<globals, hof_file>>
               /\ rendered'.status = "200"
               /\ rendered' = Render(total_connections_counter, individual_connections,
                                     active_connections, max_trap_duration,
                                     avg_trap_duration, connections_per_ip)
               /\ rendered.status = "200" => rendered' = rendered
       /\ (Merges /\ output_5min = <<>>)
            => UNCHANGED <<total_connections_counter, seen_log_entries>>]_vars

\* a request whose 6-hour query failed was answered after a completed pass
\* that left records, aggregates and a count
StaleScrapeWitness ==
    /\ pc = "idle"
    /\ prev.passed
    /\ scrapes > prev.scrape
    /\ rendered.status = "200"
    /\ rendered.endlessh_total_connections > 0
    /\ rendered.endlessh_total_connections_total > 0
    /\ rendered.endlessh_max_trap_duration_seconds > 0

\* a request is answered: by the end of its pass, or without one
Responds == Merges \/ LongQueryFails

\* C12: a request is taken up only when no pass is running, every response
\* is rendered with no pass left running, and once a pass has completed the
\* Hall of Fame a response is rendered from is deduplicated and trimmed
OnePassAtATime ==
    [][/\ scrapes' # scrapes => pc = "idle"
       /\ Responds
            => /\ pc' = "idle"
               /\ prev'.passed
                    => /\ Len(hall_of_fame') <= HallCapacity
                       /\ Deduplicate(hall_of_fame') = hall_of_fame']_vars

\* a request arrived while a pass was running, and waits
RequestWaitsWitness == pc = "merge" /\ pending > 0

\* C13: after a restart the Hall of Fame is the one the last save that
\* succeeded has written, whatever saves failed since
RestartLoadsLastSaved == [][restarts' # restarts => hall_of_fame' = last_saved']_vars

\* the fields of a record, lines 185-195
RecordFields ==
    {"ip", "port", "fd", "country", "city", "country_code", "started", "duration", "status"}

\* a file that is missing, is not JSON, or holds a record that lacks a field
\* or whose 'started' is no timestamp
Corrupt(file) ==
    \/ file.kind # "json"
    \/ \E i \in DOMAIN file.data :
        \/ DOMAIN file.data[i].conn # RecordFields
        \/ ~IsIsoFormat(file.data[i].conn.started)

\* C14: when the file found at startup is missing or corrupt, the Hall of
\* Fame is empty until a pass fills it, and no request for /metrics ends
\* in an exception
CorruptFileLoadsEmpty ==
    Corrupt(boot_file)
        => /\ (pc = "idle" /\ ~prev.passed) => hall_of_fame = <<>>
           /\ rendered.status # "exception"

\* lines 129-248 over a text: the working set, the Hall of Fame and the
\* display union they leave, with the geo cache as the pass leaves it
PassOver(text, hall, locs, t) ==
    LET scan == AcceptScan(text, 1, EmptyMap, EmptyMap, locs, {}, ClosedPorts(text), t)
        closed == CloseScan(text, 1, scan.conns, hall)
        conns == WithLive(closed.conns, t)
        trimmed == Trim(Deduplicate(closed.hall))
    IN [working |-> conns,
        hall |-> trimmed,
        display |-> DisplayConnections(Trapped(conns), trimmed)]

\* the text without its line i
Without(text, i) == SubSeq(text, 1, i - 1) \o SubSeq(text, i + 1, Len(text))

\* the CLOSE lines whose (origin, port) has no ACCEPT line in the text
UnmatchedCloses(text) ==
    {i \in DOMAIN text :
        text[i].kind = "CLOSE" /\ AcceptsOf(text, text[i].ip, text[i].port) = {}}

\* C15: the working set a pass builds, and the Hall of Fame and the display
\* union it goes on to, are those of the pass over the same window without
\* any one CLOSE line whose (origin, port) has no ACCEPT line
UnmatchedCloseIsIgnored ==
    [][(pc = "idle" /\ pc' = "merge")
        => \A i \in UnmatchedCloses(output_6h') :
              LET without == PassOver(Without(output_6h', i), hall_of_fame,
                                      ip_locations', now)
                  trimmed == Trim(Deduplicate(hall_of_fame'))
              IN /\ individual_connections' = without.working
                 /\ trimmed = without.hall
                 /\ DisplayConnections(trapped_connections', trimmed) = without.display]_vars

\* C16: an ACCEPT line without a timestamp yields a record started now, and
\* the first pass, whose 5-minute window holds such lines and no other
\* ACCEPT line, raises the counter
UntimedOpenIsRecordedAndCounted ==
    [][/\ (pc = "idle" /\ pc' = "merge")
            => \A k \in OpenKeys(output_6h') :
                  ~LastAccept(output_6h', k).has_ts
                      => /\ k \in DOMAIN individual_connections'
                         /\ individual_connections'[k].started = now
       /\ (/\ Merges
           /\ ~prev.passed
           /\ Opens(output_5min) # {}
           /\ \A l \in Opens(output_5min) : ~l.has_ts)
            => total_connections_counter' > total_connections_counter]_vars

ActiveRecordsAreDisplayed ==
    [][Merges
        => /\ \A k \in DOMAIN trapped_connections :
                individual_connections'[k].status = "trapped"
           /\ active_connections' = Cardinality(DOMAIN trapped_connections)]_vars

\* C19: every Hall of Fame record is 'released', and is a record the file
\* held at startup or carries the time= of a CLOSE line of its (origin, port)
HallHoldsReportedReleases ==
    \A i \in DOMAIN hall_of_fame :
        /\ hall_of_fame[i].conn.status = "released"
        /\ \/ hall_of_fame[i] \in Entries(Load(boot_file))
           \/ \E j \in ClosesOf(journal, hall_of_fame[i].id[1], hall_of_fame[i].id[2]) :
                journal[j].time = hall_of_fame[i].conn.duration

\* a completed pass has merged a released record into the Hall of Fame the
\* file held, with a duration that is not now - started
HallHoldsReportedWitness ==
    /\ Completed
    /\ Len(hall_of_fame) > 1
    /\ \E i \in DOMAIN hall_of_fame :
        /\ hall_of_fame[i] \notin Entries(Load(boot_file))
        /\ hall_of_fame[i].conn.duration # now - hall_of_fame[i].conn.started

\* the placeholder location of a record
Placeholder(conn) ==
    conn.country = "Unknown" /\ conn.city = "Unknown" /\ conn.country_code = "XX"

\* C20: the geo cache holds looked-up locations only and an entry of it is
\* never changed or removed; every ACCEPT of a pass yields a record, with
\* the placeholder location when its origin is not in the cache
GeoFailsOpen ==
    /\ [](\A ip \in DOMAIN ip_locations : ip_locations[ip] = GeoOf(ip))
    /\ [][/\ \A ip \in DOMAIN ip_locations :
                ip \in DOMAIN ip_locations' /\ ip_locations'[ip] = ip_locations[ip]
           /\ (pc = "idle" /\ pc' = "merge")
                => \A k \in OpenKeys(output_6h') :
                      /\ k \in DOMAIN individual_connections'
                      /\ k[1] \notin DOMAIN ip_locations'
                            => Placeholder(individual_connections'[k])]_vars

\* the lookup of an origin failed in the pass before and answers in this
\* one: the record had the placeholder location and has the looked-up one
LookedUpAgainWitness ==
    /\ pc = "merge"
    /\ prev.passed
    /\ \E k \in DOMAIN individual_connections \cap DOMAIN prev.working :
        /\ Placeholder(prev.working[k])
        /\ k \notin Keys(prev.hall)
        /\ k[1] \in DOMAIN ip_locations
        /\ individual_connections[k].country = GeoOf(k[1]).country
====
